---------------------------- MODULE Spec2Model ----------------------------
(***************************************************************************)
(* Frontend auditor agent: the GitHub client (collector), the audit engine *)
(* (six category checks, addIssue, compliance score) and the agent's entry *)
(* points, as a state machine.  Remote requests are split into a send and  *)
(* a receive step; the remote service answers each request with a value    *)
(* drawn from a bounded set of responses.                                  *)
(***************************************************************************)
EXTENDS Integers, Sequences, FiniteSets, TLC

(***************************************************************************)
(* Bounds of the model.                                                    *)
(***************************************************************************)
\* how many answers of the remote service may differ from the baseline repository
MaxDeviation == 1
\* how many addIssue calls a direct caller makes on one category
MaxIssues == 5
\* how many times the evaluation is run on the same datasets
MaxRuns == 2

(***************************************************************************)
(* State.                                                                  *)
(***************************************************************************)
VARIABLES
  op,           \* the operation in progress: "none", "audit", "metadata", "compare", "addIssue"
  base,         \* the baseline repository the remote service serves: "bare", "full", "down"
  used,         \* how many answers so far differed from the baseline
  served,       \* per thread: the requests answered so far, each with its answer
  inflight,     \* the number of remote requests sent and not yet answered
  th,           \* per thread of control: its control point and local variables
  auditReport,  \* auditRepository's report
  outcome,      \* of the operation: "none", "running", "returned", "thrown"
  clock,        \* the wall clock (new Date())
  run,          \* how many times the datasets have been evaluated
  firstReport   \* the report of the first evaluation, once a second one has started

vars == << op, base, used, served, inflight, th, auditReport, outcome, clock, run, firstReport >>

(***************************************************************************)
(* Configuration (mcp-config.js).                                          *)
(***************************************************************************)
maxFileSize == 50000

STRUCTURE == "Repository Structure"
DEPENDENCIES == "Dependencies & Package Management"
BUILD == "Build Configuration"
CODE_QUALITY == "Code Quality & Standards"
TESTING == "Testing Setup"
DOCUMENTATION == "Documentation"
SECURITY == "Security & Compliance"

AUDIT_CATEGORIES ==
  {STRUCTURE, DEPENDENCIES, BUILD, CODE_QUALITY, TESTING, DOCUMENTATION, SECURITY}

CRITICAL == "critical"
HIGH == "high"
MEDIUM == "medium"
LOW == "low"
INFO == "info"

SEVERITY_LEVELS == {CRITICAL, HIGH, MEDIUM, LOW, INFO}

boilerplatePath == "templates/monorepo-app-boilerplate/template"

(***************************************************************************)
(* JavaScript string methods, on strings as character sequences.           *)
(***************************************************************************)
Max(a, b) == IF a >= b THEN a ELSE b

\* String.prototype.startsWith
startsWith(s, prefix) ==
  /\ Len(prefix) <= Len(s)
  /\ SubSeq(s, 1, Len(prefix)) = prefix

\* String.prototype.endsWith
endsWith(s, suffix) ==
  /\ Len(suffix) <= Len(s)
  /\ SubSeq(s, Len(s) - Len(suffix) + 1, Len(s)) = suffix

\* String.prototype.includes
includes(s, sub) ==
  \E i \in 1..(Len(s) + 1) :
    /\ i + Len(sub) - 1 <= Len(s)
    /\ SubSeq(s, i, i + Len(sub) - 1) = sub

\* String.prototype.replace(search, by) with a string search: the first occurrence only
replaceFirst(s, search, by) ==
  LET hits == {i \in 1..Len(s) : /\ i + Len(search) - 1 <= Len(s)
                                  /\ SubSeq(s, i, i + Len(search) - 1) = search}
  IN  IF hits = {} THEN s
      ELSE LET i == CHOOSE h \in hits : \A g \in hits : h <= g
           IN  SubSeq(s, 1, i - 1) \o by \o SubSeq(s, i + Len(search), Len(s))

(***************************************************************************)
(* new RegExp(source).test(text) for the regular expressions the client    *)
(* builds: literal characters, '.' (any character) and the '*' quantifier. *)
(* The match is not anchored: it may start at any position of the text.    *)
(***************************************************************************)
RECURSIVE matchHere(_, _)
matchHere(re, text) ==
  IF re = "" THEN TRUE
  ELSE IF Len(re) >= 2 /\ SubSeq(re, 2, 2) = "*"
    THEN \* c* : zero or more characters matching c, then the rest
         \E n \in 0..Len(text) :
           /\ \A k \in 1..n : SubSeq(re, 1, 1) = "." \/ SubSeq(re, 1, 1) = SubSeq(text, k, k)
           /\ matchHere(SubSeq(re, 3, Len(re)), SubSeq(text, n + 1, Len(text)))
    ELSE /\ text # ""
         /\ (SubSeq(re, 1, 1) = "." \/ SubSeq(re, 1, 1) = SubSeq(text, 1, 1))
         /\ matchHere(Tail(re), Tail(text))

regexTest(re, text) ==
  \E i \in 1..(Len(text) + 1) : matchHere(re, SubSeq(text, i, Len(text)))

configPatterns ==
  << "babel.config.*", "jest.config.*", "webpack.config.*", "tsconfig.json",
     "jsconfig.json", "eslint.config.*", "prettier.config.*", "turbo.json" >>

\* GitHubMCPClient.matchesPattern
matchesPattern(filename, patterns) ==
  \E i \in 1..Len(patterns) : regexTest(replaceFirst(patterns[i], "*", ".*"), filename)


(***************************************************************************)
(* File contents.  A content is text; JSON.parse either throws (the text   *)
(* is not JSON) or yields null or an object.  An object is known by the    *)
(* truthiness of the properties the checks read: absent (undefined), falsy *)
(* (present with "", 0, false or null) or truthy.                          *)
(***************************************************************************)
requiredDeps ==
  << "@dtsl/jest-config", "@dtsl/eslint-config", "@dtsl/prettier-config",
     "@dtsl/typescript-config" >>

RequiredDepSet == {requiredDeps[i] : i \in 1..Len(requiredDeps)}

PropVals == {"absent", "falsy", "truthy"}

ManifestProps ==
  {"workspaces", "packageManager", "engines", "scripts.test", "scripts.test:ci"}
  \cup {"devDependencies." \o d : d \in RequiredDepSet \cup {"lodash", "husky", "lint-staged"}}
  \cup {"dependencies." \o d : d \in RequiredDepSet \cup {"lodash"}}

object(props) == [json |-> "object", props |-> props]
EmptyManifest == object([p \in ManifestProps |-> "absent"])
\* a manifest that passes every check: everything present but lodash
FullManifest ==
  object([p \in ManifestProps |->
            IF p \in {"devDependencies.lodash", "dependencies.lodash"}
              \cup {"dependencies." \o d : d \in RequiredDepSet}
            THEN "absent" ELSE "truthy"])
NullJson == [json |-> "null", props |-> EmptyManifest.props]
NotJson == [json |-> "invalid", props |-> EmptyManifest.props]

\* faulty variant: a lenient parser that reads text that is not JSON as {}
JSONparseLenient(content) == [threw |-> FALSE, value |-> content]

\* JSON.parse(content): throws a SyntaxError on text that is not JSON
JSONparse(content) == [threw |-> content.json = "invalid", value |-> content]

\* reading a property of a parsed value: a TypeError on null
readThrows(value) == value.json = "null"
\* value.a or value.a?.b, by truthiness
truthy(value, prop) == value.props[prop] = "truthy"

(***************************************************************************)
(* The remote service.  A request for a file is answered by the file       *)
(* (path, size, content), by a directory, or by a failure; a request for a *)
(* directory by its entries or by a failure.                               *)
(***************************************************************************)
TargetRepos == {"target", "repo1", "repo2"}

fileResponse(path, size, content) ==
  [status |-> "ok", path |-> path, size |-> size, content |-> content]
fileFailure(status, path) ==
  [status |-> status, path |-> path, size |-> 0, content |-> NotJson]
listResponse(entries) == [status |-> "ok", entries |-> entries]
listFailure(status) == [status |-> status, entries |-> << >>]

join(parent, name) == IF parent = "" THEN name ELSE parent \o "/" \o name
file(parent, name) == [name |-> name, path |-> join(parent, name), type |-> "file"]
dir(parent, name) == [name |-> name, path |-> join(parent, name), type |-> "dir"]

\* the entries a directory of a repository may have, in listing order
Universe(repo, path) ==
  IF repo \in TargetRepos THEN
    CASE path = "" ->
           << file("", ".eslintrc"), file("", ".eslintrc.jest.config.js"),
              file("", "README.md"), file("", "babel.config.js"),
              file("", "eslint.config.js"), file("", "jest.config.js"),
              file("", "package.json"), dir("", "prettier.config.d"),
              file("", "prettier.config.js"), dir("", "src"), file("", "tsconfig.json"),
              file("", "tsconfig.json.bak"), file("", "turbo.json") >>
      [] path = "apps" -> << file("apps", "README.md"), dir("apps", "web") >>
      [] path = "packages" -> << dir("packages", "ui") >>
      [] path = "config" ->
           << file("config", ".eslintrc"), dir("config", "env"),
              file("config", "jest.config.js"), file("config", "turbo.json") >>
      [] OTHER -> << >>
  ELSE IF repo = "boilerplate" THEN
    IF path = boilerplatePath THEN << file(boilerplatePath, "package.json") >> ELSE << >>
  ELSE \* the common config repository
    IF path = "" THEN << file("", "README.md"), file("", "eslint.json"), file("", "index.js"),
                         dir("", "lib.js") >>
    ELSE << >>

\* the names of the baseline repository's entries
BaseNames(b, repo, path) ==
  IF repo \in TargetRepos THEN
    IF b = "full" THEN
      CASE path = "" -> {"babel.config.js", "eslint.config.js", "jest.config.js",
                         "package.json", "prettier.config.js", "tsconfig.json", "turbo.json"}
        [] path = "apps" -> {"web"}
        [] path = "packages" -> {"ui"}
        [] OTHER -> {}
    ELSE IF path = "" THEN {"package.json"} ELSE {}
  ELSE IF repo = "boilerplate" THEN {"package.json"}
  ELSE {"eslint.json", "index.js"}

\* whether the baseline repository has the directory
BaseHasDir(b, repo, path) ==
  IF repo \in TargetRepos
  THEN path = "" \/ (b = "full" /\ path \in {"apps", "packages"})
  ELSE TRUE

pick(universe, names) == SelectSeq(universe, LAMBDA e : e.name \in names)
namesOf(universe) == {universe[i].name : i \in 1..Len(universe)}

\* the baseline answer to a directory request
BaseList(b, repo, path) ==
  IF b = "down" THEN listFailure("Transient")
  ELSE IF ~BaseHasDir(b, repo, path) THEN listFailure("NotFound")
  ELSE listResponse(pick(Universe(repo, path), BaseNames(b, repo, path)))

\* the baseline answer to a file request
BaseFile(b, repo, path) ==
  IF b = "down" THEN fileFailure("Transient", path)
  ELSE IF repo \in TargetRepos THEN
    IF path = "package.json"
    THEN fileResponse(path, maxFileSize, IF b = "full" THEN FullManifest ELSE EmptyManifest)
    ELSE IF b = "full"
      THEN fileResponse(path, maxFileSize,
                        IF endsWith(path, "/package.json") THEN EmptyManifest ELSE NotJson)
    ELSE IF startsWith(path, "config/") \/ ~includes(path, "/")
      THEN fileResponse(path, maxFileSize, NotJson)
    ELSE fileFailure("NotFound", path)
  ELSE IF repo = "boilerplate" THEN
    fileResponse(path, maxFileSize,
                 IF endsWith(path, "package.json") THEN EmptyManifest ELSE NotJson)
  ELSE IF path = "lib.js" THEN fileFailure("dir", path)
  ELSE fileResponse(path, maxFileSize, NotJson)

\* the objects that differ from ref in at most k properties
RECURSIVE within(_, _)
within(ref, k) ==
  IF k = 0 THEN {ref}
  ELSE LET prev == within(ref, k - 1)
       IN  prev \cup {[m EXCEPT !.props[p] = v] : m \in prev, p \in ManifestProps, v \in PropVals}

distance(m, ref) == Cardinality({p \in ManifestProps : m.props[p] # ref.props[p]})

\* the answers to a file request, each with the number of deviations it costs
FileAnswers(b, repo, path, budget, inspect) ==
  LET baseline == BaseFile(b, repo, path)
      ref == IF baseline.status = "ok" /\ baseline.content.json = "object"
             THEN baseline.content ELSE EmptyManifest
      contents ==
        IF repo \in TargetRepos /\ path = "package.json" /\ inspect
          THEN {NotJson, NullJson} \cup within(ref, budget)
        ELSE IF repo = "boilerplate" /\ endsWith(path, "package.json")
          THEN {NotJson, EmptyManifest}
        ELSE {NotJson}
      others ==
        {fileFailure("NotFound", path), fileFailure("Transient", path),
         fileResponse(path, maxFileSize + 1, baseline.content)}
        \cup {fileResponse(path, maxFileSize, c) : c \in contents}
      cost(r) == IF r = baseline THEN 0
                 ELSE IF r.status = "ok" /\ r.content.json = "object"
                   THEN Max(1, distance(r.content, ref))
                 ELSE 1
  IN  {[resp |-> r, cost |-> cost(r)] : r \in {x \in {baseline} \cup others : cost(x) <= budget}}

\* the answers to a directory request, each with the number of deviations it costs
ListAnswers(b, repo, path, budget) ==
  LET baseline == BaseList(b, repo, path)
      universe == Universe(repo, path)
      baseNames == IF baseline.status = "ok" THEN BaseNames(b, repo, path) ELSE {}
      diff(names) == Cardinality((names \ baseNames) \cup (baseNames \ names))
      listings == {names \in SUBSET namesOf(universe) : diff(names) <= budget}
      cost(r) == IF r = baseline THEN 0
                 ELSE IF r.status = "ok"
                   THEN Max(1, diff(namesOf(r.entries)))
                 ELSE 1
      all == {baseline, listFailure("NotFound"), listFailure("Transient")}
             \cup {listResponse(pick(universe, names)) : names \in listings}
  IN  {[resp |-> r, cost |-> cost(r)] : r \in {x \in all : cost(x) <= budget}}

(***************************************************************************)
(* GitHubMCPClient: what each method makes of the service's answer.  A     *)
(* value that may be null is a sequence of no or one element.              *)
(***************************************************************************)
\* getRepositoryStructure: the entries, or [] on any failure
getRepositoryStructure(resp) ==
  IF resp.status = "ok" THEN resp.entries ELSE << >>

\* faulty variant: getFileContent without the size validation
getFileContentAnySize(resp) ==
  IF resp.status # "ok" THEN << >>
  ELSE << [path |-> resp.path, content |-> resp.content, size |-> resp.size] >>

\* faulty variant: a failed fetch yields a record without content instead of null
getFileContentPlaceholder(resp) ==
  IF resp.status # "ok" THEN << [path |-> resp.path, content |-> NotJson, size |-> 0] >>
  ELSE IF resp.size > maxFileSize THEN << >>
  ELSE << [path |-> resp.path, content |-> resp.content, size |-> resp.size] >>

\* getFileContent: null on any failure (a directory's data has no content to decode:
\* a TypeError), null when data.size > maxFileSize, the file record otherwise
getFileContent(resp) ==
  IF resp.status # "ok" THEN << >>
  ELSE IF resp.size > maxFileSize THEN << >>
  ELSE << [path |-> resp.path, content |-> resp.content, size |-> resp.size] >>

\* getPackageJsonFiles: the entries of apps/ and packages/ whose package.json is fetched
workspaceItems(appsStructure, packagesStructure) ==
  SelectSeq(appsStructure, LAMBDA item : item.type = "dir")
  \o SelectSeq(packagesStructure, LAMBDA item : item.type = "dir")

\* getConfigFiles: the root entries that are fetched
rootConfigItems(rootStructure) ==
  SelectSeq(rootStructure,
            LAMBDA item : item.type = "file" /\ matchesPattern(item.name, configPatterns))

\* getConfigFiles: the entries of config/ that are fetched
configDirItems(configDir) == SelectSeq(configDir, LAMBDA item : item.type = "file")

\* getBoilerplateTemplate: the key template files
keyFiles ==
  << "package.json", "babel.config.json", "jest.config.js", "tsconfig.json", "turbo.json" >>

\* getCommonConfig: the entries that are fetched ('&&' binds tighter than '||')
commonConfigItems(configStructure) ==
  SelectSeq(configStructure,
            LAMBDA item : (item.type = "file" /\ endsWith(item.name, ".json"))
                          \/ endsWith(item.name, ".js"))

\* getRepositoryDataChunked: the dataset returned
repositoryData(packageFiles, configFiles) ==
  [packageFiles |-> packageFiles, configFiles |-> configFiles,
   totalFiles |-> Len(packageFiles) + Len(configFiles)]

(***************************************************************************)
(* AuditEngine.                                                            *)
(***************************************************************************)
\* Array.prototype.find: the first element satisfying P, if any
find(seq, P(_)) ==
  LET hits == SelectSeq(seq, P) IN IF hits = << >> THEN << >> ELSE << hits[1] >>

\* Array.prototype.some
some(seq, P(_)) == \E i \in 1..Len(seq) : P(seq[i])

\* no report: the value of report before auditRepository is called
noReport ==
  [timestamp |-> 0,
   summary |-> [totalIssues |-> 0, criticalIssues |-> 0, highIssues |-> 0,
                mediumIssues |-> 0, lowIssues |-> 0, complianceScore |-> 0],
   categories |-> [c \in {} |-> 0],
   recommendations |-> << >>]

\* faulty variant: the summary object is shared between reports instead of created anew
newAuditReportSharedSummary(now) ==
  [timestamp |-> now,
   summary |-> auditReport.summary,
   categories |-> [c \in {} |-> 0],
   recommendations |-> << >>]

\* the report auditRepository starts from
newAuditReport(now) ==
  [timestamp |-> now,
   summary |-> [totalIssues |-> 0, criticalIssues |-> 0, highIssues |-> 0,
                mediumIssues |-> 0, lowIssues |-> 0, complianceScore |-> 0],
   categories |-> [c \in {} |-> 0],
   recommendations |-> << >>]

\* faulty variant: the categories map is replaced instead of extended
newCategoryAlone(report, category) ==
  [report EXCEPT !.categories = [c \in {category} |-> [issues |-> << >>, score |-> 100]]]

\* auditReport.categories[category] = { issues: [], score: 100 }
newCategory(report, category) ==
  [report EXCEPT !.categories =
     [c \in DOMAIN @ \cup {category} |->
        IF c = category THEN [issues |-> << >>, score |-> 100] ELSE @[c]]]

issue(severity, message, path) == [severity |-> severity, message |-> message, file |-> path]

\* faulty variant: addIssue without the final Math.max(0, score)
addIssueNoFloor(report, category, i) ==
  LET pushed == [report EXCEPT !.categories[category].issues = Append(@, i),
                                    !.summary.totalIssues = @ + 1]
  IN  CASE i.severity = CRITICAL ->
             [pushed EXCEPT !.summary.criticalIssues = @ + 1,
                            !.categories[category].score = @ - 25]
        [] i.severity = HIGH ->
             [pushed EXCEPT !.summary.highIssues = @ + 1,
                            !.categories[category].score = @ - 15]
        [] i.severity = MEDIUM ->
             [pushed EXCEPT !.summary.mediumIssues = @ + 1,
                            !.categories[category].score = @ - 10]
        [] i.severity = LOW ->
             [pushed EXCEPT !.summary.lowIssues = @ + 1,
                            !.categories[category].score = @ - 5]
        [] OTHER -> pushed

\* faulty variant: addIssue without summary.lowIssues++
addIssueLowUncounted(report, category, i) ==
  LET pushed == [report EXCEPT !.categories[category].issues = Append(@, i),
                                    !.summary.totalIssues = @ + 1]
      counted ==
        CASE i.severity = CRITICAL ->
               [pushed EXCEPT !.summary.criticalIssues = @ + 1,
                              !.categories[category].score = @ - 25]
          [] i.severity = HIGH ->
               [pushed EXCEPT !.summary.highIssues = @ + 1,
                              !.categories[category].score = @ - 15]
          [] i.severity = MEDIUM ->
               [pushed EXCEPT !.summary.mediumIssues = @ + 1,
                              !.categories[category].score = @ - 10]
          [] i.severity = LOW ->
               [pushed EXCEPT !.categories[category].score = @ - 5]
          [] OTHER -> pushed
  IN  [counted EXCEPT !.categories[category].score = Max(0, @)]

\* AuditEngine.addIssue
addIssue(report, category, i) ==
  LET pushed == [report EXCEPT !.categories[category].issues = Append(@, i),
                                    !.summary.totalIssues = @ + 1]
      counted ==
        CASE i.severity = CRITICAL ->
               [pushed EXCEPT !.summary.criticalIssues = @ + 1,
                              !.categories[category].score = @ - 25]
          [] i.severity = HIGH ->
               [pushed EXCEPT !.summary.highIssues = @ + 1,
                              !.categories[category].score = @ - 15]
          [] i.severity = MEDIUM ->
               [pushed EXCEPT !.summary.mediumIssues = @ + 1,
                              !.categories[category].score = @ - 10]
          [] i.severity = LOW ->
               [pushed EXCEPT !.summary.lowIssues = @ + 1,
                              !.categories[category].score = @ - 5]
          [] OTHER -> pushed
  IN  [counted EXCEPT !.categories[category].score = Max(0, @)]

\* faulty variant: the findings go to the first category of the report
RECURSIVE addIssuesToFirst(_, _, _)
addIssuesToFirst(report, category, issues) ==
  IF issues = << >> THEN report
  ELSE addIssuesToFirst(
         addIssue(report,
                  IF STRUCTURE \in DOMAIN report.categories THEN STRUCTURE ELSE category,
                  Head(issues)),
         category, Tail(issues))

\* addIssue for each issue of a sequence, in order
RECURSIVE addIssues(_, _, _)
addIssues(report, category, issues) ==
  IF issues = << >> THEN report
  ELSE addIssues(addIssue(report, category, Head(issues)), category, Tail(issues))

\* the body of a check's try block: the issues it adds, in order, and whether it
\* ended by an exception
completed(issues) == [issues |-> issues, error |-> FALSE]
failed(issues) == [issues |-> issues, error |-> TRUE]

\* faulty variant: the catch block rethrows, as auditRepository's own does
catchBlockRethrows(error) == error

\* a check's catch block logs the error: nothing propagates to auditRepository
catchBlock(error) == FALSE

only(cond, i) == IF cond THEN << i >> ELSE << >>

\* faulty variant: the root manifest looked up the way the boilerplate's is: by includes
isRootPackageLoose(f) == includes(f.path, "package.json")

\* f => f.path === 'package.json'
isRootPackage(f) == f.path = "package.json"

\* auditPackageStructure
auditPackageStructure(targetData, boilerplateData) ==
  LET rootPackage == find(targetData.packageFiles, isRootPackage)
      boilerplatePackage ==
        find(boilerplateData, LAMBDA f : includes(f.path, "package.json"))
  IN  IF rootPackage = << >>
        THEN completed(<< issue(CRITICAL, "Missing root package.json file", "package.json") >>)
      ELSE IF JSONparse(rootPackage[1].content).threw THEN failed(<< >>)
      ELSE IF boilerplatePackage # << >> /\ JSONparse(boilerplatePackage[1].content).threw
        THEN failed(<< >>)
      ELSE LET rootPkg == JSONparse(rootPackage[1].content).value
               hasApps == some(targetData.packageFiles, LAMBDA f : startsWith(f.path, "apps/"))
               hasPackages ==
                 some(targetData.packageFiles, LAMBDA f : startsWith(f.path, "packages/"))
           IN  IF readThrows(rootPkg) THEN failed(<< >>)
               ELSE completed(
                 only(~truthy(rootPkg, "workspaces"),
                      issue(HIGH, "Missing workspaces configuration", "package.json"))
                 \o only(~truthy(rootPkg, "packageManager"),
                         issue(MEDIUM, "Missing packageManager field", "package.json"))
                 \o only(~truthy(rootPkg, "engines"),
                         issue(MEDIUM, "Missing engines configuration", "package.json"))
                 \o only(~hasApps /\ ~hasPackages,
                         issue(HIGH, "Missing standard monorepo structure", "root")))

\* auditDependencyManagement
auditDependencyManagement(targetData) ==
  LET rootPackage == find(targetData.packageFiles, isRootPackage)
  IN  IF rootPackage = << >> THEN completed(<< >>)
      ELSE IF JSONparse(rootPackage[1].content).threw THEN failed(<< >>)
      ELSE LET rootPkg == JSONparse(rootPackage[1].content).value
               missingDeps ==
                 SelectSeq(requiredDeps,
                           LAMBDA dep : /\ ~truthy(rootPkg, "devDependencies." \o dep)
                                        /\ ~truthy(rootPkg, "dependencies." \o dep))
           IN  IF readThrows(rootPkg) THEN failed(<< >>)
               ELSE completed(
                 [k \in 1..Len(missingDeps) |->
                    issue(MEDIUM, "Missing DTSL common dependency: " \o missingDeps[k],
                          "package.json")]
                 \o only(truthy(rootPkg, "dependencies.lodash")
                           \/ truthy(rootPkg, "devDependencies.lodash"),
                         issue(LOW, "Consider using lodash-es instead of lodash",
                               "package.json")))

\* auditBuildConfiguration
auditBuildConfiguration(targetData) ==
  LET turboConfig == find(targetData.configFiles, LAMBDA f : f.path = "turbo.json")
      tsConfig == find(targetData.configFiles, LAMBDA f : f.path = "tsconfig.json")
      babelConfig == find(targetData.configFiles, LAMBDA f : includes(f.path, "babel.config"))
  IN  completed(
        only(turboConfig = << >>,
             issue(HIGH, "Missing turbo.json configuration", "turbo.json"))
        \o only(tsConfig = << >>,
                issue(MEDIUM, "Missing TypeScript configuration", "tsconfig.json"))
        \o only(babelConfig = << >>,
                issue(MEDIUM, "Missing Babel configuration", "babel.config.json")))

\* auditCodeQualitySetup
auditCodeQualitySetup(targetData) ==
  LET eslintConfig ==
        find(targetData.configFiles,
             LAMBDA f : includes(f.path, "eslint.config") \/ includes(f.path, ".eslintrc"))
      prettierConfig ==
        find(targetData.configFiles,
             LAMBDA f : includes(f.path, "prettier.config") \/ includes(f.path, ".prettierrc"))
      rootPackage == find(targetData.packageFiles, isRootPackage)
      configs ==
        only(eslintConfig = << >>,
             issue(HIGH, "Missing ESLint configuration", "eslint.config.js"))
        \o only(prettierConfig = << >>,
                issue(MEDIUM, "Missing Prettier configuration", "prettier.config.js"))
  IN  IF rootPackage = << >> THEN completed(configs)
      ELSE IF JSONparse(rootPackage[1].content).threw THEN failed(configs)
      ELSE LET rootPkg == JSONparse(rootPackage[1].content).value
           IN  IF readThrows(rootPkg) THEN failed(configs)
               ELSE completed(
                 configs
                 \o only(~truthy(rootPkg, "devDependencies.husky"),
                         issue(MEDIUM, "Missing Husky for git hooks", "package.json"))
                 \o only(~truthy(rootPkg, "devDependencies.lint-staged"),
                         issue(MEDIUM, "Missing lint-staged", "package.json")))

\* auditTestingSetup
auditTestingSetup(targetData) ==
  LET jestConfig == find(targetData.configFiles, LAMBDA f : includes(f.path, "jest.config"))
      rootPackage == find(targetData.packageFiles, isRootPackage)
      configs ==
        only(jestConfig = << >>, issue(HIGH, "Missing Jest configuration", "jest.config.js"))
  IN  IF rootPackage = << >> THEN completed(configs)
      ELSE IF JSONparse(rootPackage[1].content).threw THEN failed(configs)
      ELSE LET rootPkg == JSONparse(rootPackage[1].content).value
           IN  IF readThrows(rootPkg) THEN failed(configs)
               ELSE completed(
                 configs
                 \o only(~truthy(rootPkg, "scripts.test"),
                         issue(MEDIUM, "Missing test script", "package.json"))
                 \o only(~truthy(rootPkg, "scripts.test:ci"),
                         issue(LOW, "Missing CI test script", "package.json")))

\* faulty variant: the placeholder finding depends on what was collected
auditDocumentationByContent ==
  IF th[1].targetData.configFiles = << >>
    THEN completed(<< issue(LOW, "Documentation audit not fully implemented", "various") >>)
    ELSE completed(<< >>)

\* auditDocumentation
auditDocumentation ==
  completed(<< issue(LOW, "Documentation audit not fully implemented", "various") >>)

\* the sum of the scores of the categories in cats
RECURSIVE sumScores(_, _)
sumScores(categories, cats) ==
  IF cats = {} THEN 0
  ELSE LET c == CHOOSE x \in cats : TRUE
       IN  categories[c].score + sumScores(categories, cats \ {c})

\* faulty variant: Math.floor in place of Math.round
floorDiv(n, d) == n \div d

\* Math.round of the quotient n / d of naturals, d > 0: halves round up
roundDiv(n, d) == (2 * n + d) \div (2 * d)

\* AuditEngine.calculateComplianceScore
calculateComplianceScore(report) ==
  LET sum == sumScores(report.categories, DOMAIN report.categories)
      length == Cardinality(DOMAIN report.categories)
  IN  [report EXCEPT !.summary.complianceScore = roundDiv(sum, length)]

(***************************************************************************)
(* Threads of control.                                                     *)
(***************************************************************************)

Threads == {1, 2}
Baselines == {"bare", "full", "down"}

FileSites == {"pkg:root", "pkg:item", "cfg:rootItem", "cfg:configItem", "bp:keyFile", "cc:item"}
ListSites == {"pkg:apps", "pkg:packages", "cfg:root", "cfg:configDir", "bp:structure",
              "cc:structure"}

noData == [packageFiles |-> << >>, configFiles |-> << >>, totalFiles |-> 0]

\* a thread of control that runs nothing
idle ==
  [pc |-> "idle", waiting |-> FALSE, repo |-> "none",
   packageFiles |-> << >>, configFiles |-> << >>,   \* getRepositoryDataChunked's repositoryData
   appsStructure |-> << >>,                         \* getPackageJsonFiles
   items |-> << >>,                                 \* what is left of the current for loop
   files |-> << >>,                                 \* templateFiles, configFiles of the reference queries
   data |-> << >>,                                  \* the dataset getRepositoryDataChunked returned
   delays |-> 0,                                    \* how many batch delays have elapsed
   targetData |-> noData, boilerplateData |-> << >>, commonConfigData |-> << >>]

\* getRepositoryDataChunked(owner, repo) up to its first request
collecting(repo) == [idle EXCEPT !.pc = "pkg:root", !.repo = repo]

Init ==
  /\ op = "none"
  /\ base = "none"
  /\ used = 0
  /\ served = [t \in Threads |-> << >>]
  /\ inflight = 0
  /\ th = [t \in Threads |-> idle]
  /\ auditReport = noReport
  /\ outcome = "none"
  /\ clock = 1
  /\ run = 0
  /\ firstReport = noReport

(***************************************************************************)
(* The entry points.                                                       *)
(***************************************************************************)
\* AuditEngine.auditRepository(owner, repo), up to the first request
CallAuditRepository(b) ==
  /\ op = "none"
  /\ op' = "audit"
  /\ base' = b
  /\ auditReport' = newAuditReport(clock)
  /\ clock' = clock + 1
  /\ th' = [th EXCEPT ![1] = collecting("target")]
  /\ outcome' = "running"
  /\ run' = 1
  /\ UNCHANGED << used, served, inflight, firstReport >>

\* FrontendAuditorAgent.getRepositoryMetadata(owner, repo)
CallGetRepositoryMetadata(b) ==
  /\ op = "none"
  /\ op' = "metadata"
  /\ base' = b
  /\ th' = [th EXCEPT ![1] = collecting("target")]
  /\ outcome' = "running"
  /\ UNCHANGED << used, served, inflight, auditReport, clock, run, firstReport >>

\* FrontendAuditorAgent.compareRepositories(repo1, repo2): Promise.all of two collections
CallCompareRepositories(b) ==
  /\ op = "none"
  /\ op' = "compare"
  /\ base' = b
  /\ th' = [th EXCEPT ![1] = collecting("repo1"), ![2] = collecting("repo2")]
  /\ outcome' = "running"
  /\ UNCHANGED << used, served, inflight, auditReport, clock, run, firstReport >>

(***************************************************************************)
(* Remote requests.                                                        *)
(***************************************************************************)
\* the request a thread makes at its control point
request(r) ==
  CASE r.pc = "pkg:root" -> [repo |-> r.repo, path |-> "package.json"]
    [] r.pc = "pkg:apps" -> [repo |-> r.repo, path |-> "apps"]
    [] r.pc = "pkg:packages" -> [repo |-> r.repo, path |-> "packages"]
    [] r.pc = "pkg:item" -> [repo |-> r.repo, path |-> Head(r.items).path \o "/package.json"]
    [] r.pc = "cfg:root" -> [repo |-> r.repo, path |-> ""]
    [] r.pc = "cfg:rootItem" -> [repo |-> r.repo, path |-> Head(r.items).path]
    [] r.pc = "cfg:configDir" -> [repo |-> r.repo, path |-> "config"]
    [] r.pc = "cfg:configItem" -> [repo |-> r.repo, path |-> Head(r.items).path]
    [] r.pc = "bp:structure" -> [repo |-> "boilerplate", path |-> boilerplatePath]
    [] r.pc = "bp:keyFile" ->
         [repo |-> "boilerplate", path |-> boilerplatePath \o "/" \o Head(r.items)]
    [] r.pc = "cc:structure" -> [repo |-> "commonConfig", path |-> ""]
    [] r.pc = "cc:item" -> [repo |-> "commonConfig", path |-> Head(r.items).path]

\* faulty variant: the next request leaves without awaiting the answer to the previous one
SendRequestNoAwait(t) ==
  /\ th[t].pc \in FileSites \cup ListSites
  /\ inflight < 3
  /\ th' = [th EXCEPT ![t].waiting = TRUE]
  /\ inflight' = inflight + 1
  /\ UNCHANGED << op, base, used, served, auditReport, outcome, clock, run, firstReport >>

\* octokit.rest.repos.getContent is called: the request leaves
SendRequest(t) ==
  /\ th[t].pc \in FileSites \cup ListSites
  /\ ~th[t].waiting
  /\ th' = [th EXCEPT ![t].waiting = TRUE]
  /\ inflight' = inflight + 1
  /\ UNCHANGED << op, base, used, served, auditReport, outcome, clock, run, firstReport >>

\* faulty variant: a fetch that failed discards the files collected so far
pushOrDiscard(files, fileContent) ==
  IF fileContent = << >> THEN << >> ELSE files \o fileContent

\* if (fileContent) { files.push(fileContent) }: null is skipped
push(files, fileContent) == files \o fileContent

\* the thread after getFileContent returned got (null or a file record)
afterFile(r, got) ==
  LET rest == Tail(r.items)
  IN  CASE r.pc = "pkg:root" ->
             [r EXCEPT !.packageFiles = push(@, got), !.pc = "pkg:apps"]
        [] r.pc = "pkg:item" ->
             [r EXCEPT !.packageFiles = push(@, got), !.items = rest,
                       !.pc = IF rest = << >> THEN "delay1" ELSE "pkg:item"]
        [] r.pc = "cfg:rootItem" ->
             [r EXCEPT !.configFiles = push(@, got), !.items = rest,
                       !.pc = IF rest = << >> THEN "cfg:configDir" ELSE "cfg:rootItem"]
        [] r.pc = "cfg:configItem" ->
             [r EXCEPT !.configFiles = push(@, got), !.items = rest,
                       !.pc = IF rest = << >> THEN "delay2" ELSE "cfg:configItem"]
        [] r.pc = "bp:keyFile" ->
             IF rest = << >>
             THEN [r EXCEPT !.boilerplateData = push(r.files, got), !.files = << >>,
                            !.items = rest, !.pc = "cc:structure"]
             ELSE [r EXCEPT !.files = push(@, got), !.items = rest]
        [] r.pc = "cc:item" ->
             IF rest = << >>
             THEN [r EXCEPT !.commonConfigData = push(r.files, got), !.files = << >>,
                            !.items = rest, !.pc = "structure"]
             ELSE [r EXCEPT !.files = push(@, got), !.items = rest]

\* the thread after getRepositoryStructure returned entries
afterList(r, entries) ==
  CASE r.pc = "pkg:apps" -> [r EXCEPT !.appsStructure = entries, !.pc = "pkg:packages"]
    [] r.pc = "pkg:packages" ->
         LET items == workspaceItems(r.appsStructure, entries)
         IN  [r EXCEPT !.appsStructure = << >>, !.items = items,
                       !.pc = IF items = << >> THEN "delay1" ELSE "pkg:item"]
    [] r.pc = "cfg:root" ->
         LET items == rootConfigItems(entries)
         IN  [r EXCEPT !.items = items,
                       !.pc = IF items = << >> THEN "cfg:configDir" ELSE "cfg:rootItem"]
    [] r.pc = "cfg:configDir" ->
         LET items == configDirItems(entries)
         IN  [r EXCEPT !.items = items,
                       !.pc = IF items = << >> THEN "delay2" ELSE "cfg:configItem"]
    [] r.pc = "bp:structure" -> [r EXCEPT !.items = keyFiles, !.pc = "bp:keyFile"]
    [] r.pc = "cc:structure" ->
         LET items == commonConfigItems(entries)
         IN  IF items = << >>
             THEN [r EXCEPT !.commonConfigData = << >>, !.pc = "structure"]
             ELSE [r EXCEPT !.items = items, !.pc = "cc:item"]

\* the answer to a getFileContent request arrives
ReceiveFile(t, site) ==
  /\ th[t].pc = site
  /\ th[t].waiting
  /\ \E a \in FileAnswers(base, request(th[t]).repo, request(th[t]).path,
                          MaxDeviation - used, op = "audit") :
       /\ used' = used + a.cost
       /\ served' = [served EXCEPT ![t] = Append(@, [request |-> request(th[t]), resp |-> a.resp])]
       /\ th' = [th EXCEPT ![t] = afterFile([@ EXCEPT !.waiting = FALSE],
                                            getFileContent(a.resp))]
  /\ inflight' = inflight - 1
  /\ UNCHANGED << op, base, auditReport, outcome, clock, run, firstReport >>

\* the answer to a getRepositoryStructure request arrives
ReceiveList(t, site) ==
  /\ th[t].pc = site
  /\ th[t].waiting
  /\ \E a \in ListAnswers(base, request(th[t]).repo, request(th[t]).path,
                          MaxDeviation - used) :
       /\ used' = used + a.cost
       /\ served' = [served EXCEPT ![t] = Append(@, [request |-> request(th[t]), resp |-> a.resp])]
       /\ th' = [th EXCEPT ![t] = afterList([@ EXCEPT !.waiting = FALSE],
                                            getRepositoryStructure(a.resp))]
  /\ inflight' = inflight - 1
  /\ UNCHANGED << op, base, auditReport, outcome, clock, run, firstReport >>

\* faulty variant: the delay is started and not awaited
BatchDelay1NotAwaited(t) ==
  /\ th[t].pc = "delay1"
  /\ th' = [th EXCEPT ![t].pc = "cfg:root"]
  /\ UNCHANGED << op, base, used, served, inflight, auditReport, outcome, clock, run,
                  firstReport >>

\* await this.delay(batchDelay) after the manifest phase
BatchDelay1(t) ==
  /\ th[t].pc = "delay1"
  /\ th' = [th EXCEPT ![t].pc = "cfg:root", ![t].delays = @ + 1]
  /\ UNCHANGED << op, base, used, served, inflight, auditReport, outcome, clock, run,
                  firstReport >>

\* await this.delay(batchDelay) after the config phase; the dataset is returned
BatchDelay2(t) ==
  /\ th[t].pc = "delay2"
  /\ th' = [th EXCEPT ![t].pc = "collected", ![t].delays = @ + 1,
                      ![t].data = << repositoryData(th[t].packageFiles, th[t].configFiles) >>]
  /\ UNCHANGED << op, base, used, served, inflight, auditReport, outcome, clock, run,
                  firstReport >>

\* auditRepository: targetData is there; getBoilerplateTemplate starts
TargetDataFetched ==
  /\ op = "audit"
  /\ th[1].pc = "collected"
  /\ th' = [th EXCEPT ![1].targetData = th[1].data[1], ![1].pc = "bp:structure"]
  /\ UNCHANGED << op, base, used, served, inflight, auditReport, outcome, clock, run,
                  firstReport >>

\* getRepositoryMetadata returns the dataset
MetadataReturned ==
  /\ op = "metadata"
  /\ th[1].pc = "collected"
  /\ th' = [th EXCEPT ![1].pc = "done"]
  /\ outcome' = "returned"
  /\ UNCHANGED << op, base, used, served, inflight, auditReport, clock, run, firstReport >>

\* compareRepositories: Promise.all resolves when both collections have returned
CompareReturned ==
  /\ op = "compare"
  /\ \A t \in Threads : th[t].pc = "collected"
  /\ th' = [t \in Threads |-> [th[t] EXCEPT !.pc = "done"]]
  /\ outcome' = "returned"
  /\ UNCHANGED << op, base, used, served, inflight, auditReport, clock, run, firstReport >>

(***************************************************************************)
(* auditRepository: the six category checks and the score.                 *)
(***************************************************************************)
\* one "await this.auditX(...)" of auditRepository: the category entry is created, the
\* issues of the try block are added, an error that leaves the check is rethrown by
\* auditRepository's own catch
RunCheck(site, category, result, next) ==
  /\ op = "audit"
  /\ th[1].pc = site
  /\ auditReport' = addIssues(newCategory(auditReport, category), category, result.issues)
  /\ IF catchBlock(result.error)
       THEN /\ outcome' = "thrown"
            /\ th' = [th EXCEPT ![1].pc = "done"]
       ELSE /\ outcome' = outcome
            /\ th' = [th EXCEPT ![1].pc = next]
  /\ UNCHANGED << op, base, used, served, inflight, clock, run, firstReport >>

\* faulty variant: the Dependencies check is left out
AuditPackageStructureThenBuild ==
  RunCheck("structure", STRUCTURE,
           auditPackageStructure(th[1].targetData, th[1].boilerplateData), "build")

AuditPackageStructure ==
  RunCheck("structure", STRUCTURE,
           auditPackageStructure(th[1].targetData, th[1].boilerplateData), "dependencies")

AuditDependencyManagement ==
  RunCheck("dependencies", DEPENDENCIES, auditDependencyManagement(th[1].targetData), "build")

AuditBuildConfiguration ==
  RunCheck("build", BUILD, auditBuildConfiguration(th[1].targetData), "codeQuality")

\* faulty variant: the check looks for the configuration files in the common-config data
AuditCodeQualitySetupOnCommonConfig ==
  RunCheck("codeQuality", CODE_QUALITY,
           auditCodeQualitySetup([th[1].targetData EXCEPT
                                    !.configFiles = th[1].commonConfigData]),
           "testing")

AuditCodeQualitySetup ==
  RunCheck("codeQuality", CODE_QUALITY, auditCodeQualitySetup(th[1].targetData), "testing")

AuditTestingSetup ==
  RunCheck("testing", TESTING, auditTestingSetup(th[1].targetData), "documentation")

AuditDocumentation ==
  RunCheck("documentation", DOCUMENTATION, auditDocumentation, "score")

\* calculateComplianceScore, then the report is returned
ReturnReport ==
  /\ op = "audit"
  /\ th[1].pc = "score"
  /\ auditReport' = calculateComplianceScore(auditReport)
  /\ outcome' = "returned"
  /\ th' = [th EXCEPT ![1].pc = "done"]
  /\ UNCHANGED << op, base, used, served, inflight, clock, run, firstReport >>

\* auditRepository is called again and the remote service answers as before: a new
\* report is evaluated on the same three datasets
AuditAgain ==
  /\ op = "audit"
  /\ outcome = "returned"
  /\ run < MaxRuns
  /\ firstReport' = IF run = 1 THEN auditReport ELSE firstReport
  /\ auditReport' = newAuditReport(clock)
  /\ clock' = clock + 1
  /\ run' = run + 1
  /\ outcome' = "running"
  /\ th' = [th EXCEPT ![1].pc = "structure"]
  /\ UNCHANGED << op, base, used, served, inflight >>

(***************************************************************************)
(* addIssue called directly on a category of a new report.                 *)
(***************************************************************************)
CreateCategory ==
  /\ op = "none"
  /\ op' = "addIssue"
  /\ auditReport' = newCategory(newAuditReport(clock), STRUCTURE)
  /\ clock' = clock + 1
  /\ outcome' = "running"
  /\ UNCHANGED << base, used, served, inflight, th, run, firstReport >>

CallAddIssue(severity) ==
  /\ op = "addIssue"
  /\ auditReport.summary.totalIssues < MaxIssues
  /\ auditReport' = addIssue(auditReport, STRUCTURE, issue(severity, "direct", "various"))
  /\ UNCHANGED << op, base, used, served, inflight, th, outcome, clock, run, firstReport >>

(***************************************************************************)
(* Specification.                                                          *)
(***************************************************************************)
Next ==
  \/ \E b \in Baselines : CallAuditRepository(b)
  \/ \E b \in Baselines : CallGetRepositoryMetadata(b)
  \/ \E t \in Threads : SendRequest(t)
  \/ \E t \in Threads : ReceiveFile(t, "pkg:root")
  \/ \E t \in Threads : ReceiveList(t, "pkg:apps")
  \/ \E t \in Threads : ReceiveList(t, "pkg:packages")
  \/ \E t \in Threads : ReceiveFile(t, "pkg:item")
  \/ \E t \in Threads : BatchDelay1(t)
  \/ \E t \in Threads : ReceiveList(t, "cfg:root")
  \/ \E t \in Threads : ReceiveFile(t, "cfg:rootItem")
  \/ \E t \in Threads : ReceiveList(t, "cfg:configDir")
  \/ \E t \in Threads : ReceiveFile(t, "cfg:configItem")
  \/ \E t \in Threads : BatchDelay2(t)
  \/ TargetDataFetched
  \/ MetadataReturned
  \/ ReceiveList(1, "bp:structure")
  \/ ReceiveFile(1, "bp:keyFile")
  \/ ReceiveList(1, "cc:structure")
  \/ ReceiveFile(1, "cc:item")
  \/ AuditPackageStructure
  \/ AuditDependencyManagement
  \/ AuditBuildConfiguration
  \/ AuditCodeQualitySetup
  \/ AuditTestingSetup
  \/ AuditDocumentation
  \/ ReturnReport
  \/ AuditAgain
  \/ CreateCategory
  \/ \E severity \in SEVERITY_LEVELS : CallAddIssue(severity)

Spec == Init /\ [][Next]_vars

\* the agent with compareRepositories, which runs two collections at once
NextAgent ==
  \/ Next
  \/ \E b \in Baselines : CallCompareRepositories(b)
  \/ CompareReturned

SpecAgent == Init /\ [][NextAgent]_vars

(***************************************************************************)
(* Properties.                                                             *)
(***************************************************************************)
SixCategories == {STRUCTURE, DEPENDENCIES, BUILD, CODE_QUALITY, TESTING, DOCUMENTATION}

\* the datasets auditRepository evaluates
targetData == th[1].targetData
boilerplateData == th[1].boilerplateData
commonConfigData == th[1].commonConfigData

elements(seq) == {seq[i] : i \in 1..Len(seq)}

hasRootManifest(data) == \E f \in elements(data.packageFiles) : f.path = "package.json"
rootManifest(data) ==
  (CHOOSE f \in elements(data.packageFiles) : f.path = "package.json").content

\* the category check has run in the audit in progress
evaluated(category) == op = "audit" /\ category \in DOMAIN auditReport.categories
returned == op = "audit" /\ outcome = "returned"
issuesOf(category) == auditReport.categories[category].issues
scoreOf(category) == auditReport.categories[category].score

\* C1: when the target dataset has no package file with path exactly 'package.json',
\* the Structure category holds the critical 'Missing root package.json file' finding
\* and nothing else, and its score is 75.
C1_MissingRootManifest ==
  (evaluated(STRUCTURE) /\ ~hasRootManifest(targetData)) =>
    /\ issuesOf(STRUCTURE) =
         << [severity |-> "critical", message |-> "Missing root package.json file",
             file |-> "package.json"] >>
    /\ scoreOf(STRUCTURE) = 75

\* a report was returned for a dataset with workspace manifests but no root manifest
C1_Witness ==
  /\ returned
  /\ ~hasRootManifest(targetData)
  /\ targetData.packageFiles # << >>
  /\ Len(issuesOf(STRUCTURE)) = 1

Penalty(severity) ==
  CASE severity = "critical" -> 25
    [] severity = "high" -> 15
    [] severity = "medium" -> 10
    [] severity = "low" -> 5
    [] OTHER -> 0

RECURSIVE SumPenalties(_)
SumPenalties(issues) ==
  IF issues = << >> THEN 0
  ELSE Penalty(Head(issues).severity) + SumPenalties(Tail(issues))

\* C2: every category's score is between 0 and 100 and equals 100 minus the penalties
\* of its findings (critical 25, high 15, medium 10, low 5, info 0), floored at 0:
\* after any sequence of addIssue calls and in every report of auditRepository.
C2_ScoreIsHundredMinusPenalties ==
  \A c \in DOMAIN auditReport.categories :
    /\ scoreOf(c) \in 0..100
    /\ scoreOf(c) = Max(0, 100 - SumPenalties(issuesOf(c)))

\* a category whose penalties exceed 100: the floor at 0 is what keeps the score
C2_Witness ==
  \E c \in DOMAIN auditReport.categories :
    /\ SumPenalties(issuesOf(c)) > 100
    /\ scoreOf(c) = 0

ExampleReport ==
  [noReport EXCEPT !.categories =
     [c \in SixCategories |->
        [issues |-> << >>,
         score |-> CASE c = STRUCTURE -> 100 [] c = DEPENDENCIES -> 75 [] c = BUILD -> 90
                     [] c = CODE_QUALITY -> 60 [] c = TESTING -> 85 [] OTHER -> 95]]]

SixScoresSum ==
  scoreOf(STRUCTURE) + scoreOf(DEPENDENCIES) + scoreOf(BUILD) + scoreOf(CODE_QUALITY)
  + scoreOf(TESTING) + scoreOf(DOCUMENTATION)

\* C3: in a returned report the compliance score is the mean of the six category
\* scores rounded to the nearest integer (halves up): score - 1/2 <= mean < score + 1/2;
\* the scores 100, 75, 90, 60, 85, 95 give 84.
C3_ComplianceScoreIsRoundedMean ==
  /\ returned =>
       /\ DOMAIN auditReport.categories = SixCategories
       /\ 12 * auditReport.summary.complianceScore <= 2 * SixScoresSum + 6
       /\ 2 * SixScoresSum + 6 < 12 * auditReport.summary.complianceScore + 12
  /\ calculateComplianceScore(ExampleReport).summary.complianceScore = 84

\* a returned report whose mean ends in one half, so that the rounding shows
C3_Witness ==
  /\ returned
  /\ SixScoresSum % 6 = 3
  /\ 2 * auditReport.summary.complianceScore = (SixScoresSum \div 3) + 1

\* every file record a thread holds: collected, returned or handed to the evaluation
recordsOf(t) ==
  elements(th[t].packageFiles) \cup elements(th[t].configFiles) \cup elements(th[t].files)
  \cup UNION {elements(d.packageFiles) \cup elements(d.configFiles) : d \in elements(th[t].data)}
  \cup elements(th[t].targetData.packageFiles) \cup elements(th[t].targetData.configFiles)
  \cup elements(th[t].boilerplateData) \cup elements(th[t].commonConfigData)

\* the answers to the thread's file requests that reported a size above the maximum
oversized(t) ==
  {s \in elements(served[t]) :
     /\ "size" \in DOMAIN s.resp
     /\ s.resp.status = "ok"
     /\ s.resp.size > maxFileSize}

\* C4: no file record of a dataset (target, boilerplate or common config) has a size
\* above maxFileSize, and a file the service reported with a larger size is in none.
C4_NoOversizedFile ==
  \A t \in Threads :
    /\ \A f \in recordsOf(t) : f.size <= maxFileSize
    /\ \A s \in oversized(t) : \A f \in recordsOf(t) : f.path # s.resp.path

\* a dataset was returned although one of its files was reported oversized
C4_Witness ==
  /\ outcome = "returned"
  /\ oversized(1) # {}
  /\ targetData.configFiles # << >>

\* the package is a key of dependencies or of devDependencies, whatever its value
present(pkg, dep) ==
  \/ pkg.props["devDependencies." \o dep] # "absent"
  \/ pkg.props["dependencies." \o dep] # "absent"

mediumOf(category) == SelectSeq(issuesOf(category), LAMBDA i : i.severity = "medium")

MissingDependencyFindings(pkg) ==
  LET missing == SelectSeq(requiredDeps, LAMBDA dep : ~present(pkg, dep))
  IN  [k \in 1..Len(missing) |->
         [severity |-> "medium",
          message |-> "Missing DTSL common dependency: " \o missing[k],
          file |-> "package.json"]]

\* C5: for every root manifest that parses, the medium findings of the Dependencies
\* category are exactly one per required package present in neither dependencies nor
\* devDependencies, each naming its package, in the order of the required list.
C5_OneMediumPerAbsentDependency ==
  (/\ evaluated(DEPENDENCIES)
   /\ hasRootManifest(targetData)
   /\ rootManifest(targetData).json # "invalid")
  => mediumOf(DEPENDENCIES) = MissingDependencyFindings(rootManifest(targetData))

sameButTimestamp(a, b) == [a EXCEPT !.timestamp = 0] = [b EXCEPT !.timestamp = 0]

\* C6: a second evaluation of the same three datasets returns the report of the
\* first: same categories, findings in the same order, scores, summary counts and
\* compliance score; only the timestamp may differ.
C6_EvaluationIsDeterministic ==
  (returned /\ run >= 2) => sameButTimestamp(auditReport, firstReport)

\* a second report was returned, with a later timestamp and several findings
C6_Witness ==
  /\ returned
  /\ run = 2
  /\ auditReport.timestamp > firstReport.timestamp
  /\ firstReport.summary.totalIssues > 1
  /\ \E c \in SixCategories : Len(issuesOf(c)) > 1

\* C7: auditRepository ends by a throw or by returning a complete report: the six
\* category entries, each with an issues list and a score, and a computed compliance
\* score (never the initial 0: no category score is 0 in an audit).
C7_CompleteReportOrThrow ==
  /\ (op = "audit" /\ outcome \in {"returned", "thrown"}) => th[1].pc = "done"
  /\ returned =>
       /\ DOMAIN auditReport.categories = SixCategories
       /\ \A c \in SixCategories :
            /\ DOMAIN auditReport.categories[c] = {"issues", "score"}
            /\ DOMAIN issuesOf(c) = 1..Len(issuesOf(c))
            /\ scoreOf(c) \in 0..100
       /\ auditReport.summary.complianceScore \in 1..100

\* a report was returned with findings in at least four categories
C7_Witness ==
  /\ returned
  /\ Cardinality({c \in DOMAIN auditReport.categories : issuesOf(c) # << >>}) >= 4

invalidManifest ==
  /\ hasRootManifest(targetData)
  /\ rootManifest(targetData).json = "invalid"

hasConfig(P(_)) == \E f \in elements(targetData.configFiles) : P(f.path)

\* the findings the Code Quality check records before it reads the root manifest
CodeQualityConfigFindings ==
  (IF hasConfig(LAMBDA path : includes(path, "eslint.config") \/ includes(path, ".eslintrc"))
     THEN << >>
     ELSE << [severity |-> "high", message |-> "Missing ESLint configuration",
              file |-> "eslint.config.js"] >>)
  \o (IF hasConfig(LAMBDA path : includes(path, "prettier.config")
                                 \/ includes(path, ".prettierrc"))
        THEN << >>
        ELSE << [severity |-> "medium", message |-> "Missing Prettier configuration",
                 file |-> "prettier.config.js"] >>)

\* the findings the Testing check records before it reads the root manifest
TestingConfigFindings ==
  IF hasConfig(LAMBDA path : includes(path, "jest.config")) THEN << >>
  ELSE << [severity |-> "high", message |-> "Missing Jest configuration",
           file |-> "jest.config.js"] >>

\* C8: when the root manifest is not valid JSON, nothing is thrown: Structure and
\* Dependencies, which parse first, end empty; Code Quality and Testing keep exactly
\* the findings recorded before the parse; the audit never stops before its end, and
\* it ends with all six categories, the score calculated and the report returned.
C8_ParseFailureIsContained ==
  (op = "audit" /\ invalidManifest) =>
    /\ outcome # "thrown"
    /\ evaluated(STRUCTURE) => issuesOf(STRUCTURE) = << >>
    /\ evaluated(DEPENDENCIES) => issuesOf(DEPENDENCIES) = << >>
    /\ evaluated(CODE_QUALITY) => issuesOf(CODE_QUALITY) = CodeQualityConfigFindings
    /\ evaluated(TESTING) => issuesOf(TESTING) = TestingConfigFindings
    /\ th[1].pc # "done" => ENABLED Next
    /\ th[1].pc = "done" =>
         /\ outcome = "returned"
         /\ DOMAIN auditReport.categories = SixCategories
         /\ auditReport.summary.complianceScore = (2 * SixScoresSum + 6) \div 12

\* a report was returned for an invalid root manifest, with findings that Code
\* Quality and Testing recorded before the failed parse
C8_Witness ==
  /\ returned
  /\ invalidManifest
  /\ Len(issuesOf(CODE_QUALITY)) = 2
  /\ Len(issuesOf(TESTING)) = 1

\* a request of the thread's collection of a target repository failed, and not by not-found
transientFailure(t) ==
  \E s \in elements(served[t]) :
    /\ s.request.repo \in TargetRepos
    /\ s.resp.status = "Transient"

\* C9: once a remote call of the target collection has failed with a failure other
\* than not-found, the collection returns no dataset and the operation does not return.
C9_TransientFailureAborts ==
  \A t \in Threads :
    transientFailure(t) => (th[t].data = << >> /\ outcome # "returned")

\* C10 (as claimed): at most one remote request is in flight, in every operation.
C10_AtMostOneInFlight == inflight <= 1

\* C10 (amended): in auditRepository and getRepositoryMetadata at most one remote
\* request is in flight; compareRepositories runs two collections at once, each with
\* at most one request in flight, so at most two in all.
C10_OneInFlightPerCollection ==
  /\ inflight = Cardinality({t \in Threads : th[t].waiting})
  /\ op \in {"audit", "metadata"} => inflight <= 1
  /\ op = "compare" => inflight <= 2

\* both collections of compareRepositories wait for an answer
C10_Witness ==
  /\ op = "compare"
  /\ inflight = 2
  /\ \A t \in Threads : th[t].waiting

\* the records of the files of a repository that the thread fetched with success and
\* within the size limit, in request order
fetched(t, repo) ==
  LET ok == SelectSeq(served[t], LAMBDA s : /\ s.request.repo = repo
                                            /\ "size" \in DOMAIN s.resp
                                            /\ s.resp.status = "ok"
                                            /\ s.resp.size <= maxFileSize)
  IN  [k \in 1..Len(ok) |->
         [path |-> ok[k].resp.path, content |-> ok[k].resp.content, size |-> ok[k].resp.size]]

\* the paths of the thread's file requests to a repository, in request order
fileRequests(t, repo) ==
  LET reqs == SelectSeq(served[t], LAMBDA s : s.request.repo = repo /\ "size" \in DOMAIN s.resp)
  IN  [k \in 1..Len(reqs) |-> reqs[k].request.path]

CheckSites == {"structure", "dependencies", "build", "codeQuality", "testing",
               "documentation", "score", "done"}
AfterBoilerplate == {"cc:structure", "cc:item"} \cup CheckSites

\* C11: getBoilerplateTemplate and getCommonConfig never throw and never stop, whatever
\* remote calls fail: each key template file is requested, a file whose fetch fails is
\* skipped, and the list returned holds every file fetched with success within the size
\* limit, in request order.
C11_ReferenceQueriesAreBestEffort ==
  op = "audit" =>
    /\ outcome # "thrown"
    /\ th[1].pc \in {"bp:structure", "bp:keyFile", "cc:structure", "cc:item"} => ENABLED Next
    /\ th[1].pc = "bp:keyFile" => th[1].files = fetched(1, "boilerplate")
    /\ th[1].pc \in AfterBoilerplate =>
         /\ boilerplateData = fetched(1, "boilerplate")
         /\ fileRequests(1, "boilerplate") =
              [k \in 1..Len(keyFiles) |-> boilerplatePath \o "/" \o keyFiles[k]]
    /\ th[1].pc = "cc:item" => th[1].files = fetched(1, "commonConfig")
    /\ th[1].pc \in CheckSites => commonConfigData = fetched(1, "commonConfig")

\* a report was returned after a key template file failed and later ones were fetched
C11_Witness ==
  /\ returned
  /\ boilerplateData # << >>
  /\ \E i, j \in 1..Len(served[1]) :
       /\ i < j
       /\ served[1][i].request.repo = "boilerplate"
       /\ i > 1 /\ served[1][i - 1].request.repo = "boilerplate"
       /\ "size" \in DOMAIN served[1][i].resp /\ "size" \in DOMAIN served[1][i - 1].resp
       /\ served[1][i - 1].resp.status = "ok"
       /\ served[1][i].resp.status # "ok"
       /\ served[1][j].request.repo = "boilerplate"
       /\ served[1][j].resp.status = "ok"

\* the service reported the target's root package.json with a size above the maximum
oversizedRootManifest ==
  \E s \in oversized(1) : s.request.repo = "target" /\ s.request.path = "package.json"

\* C12: an oversized file is skipped without a finding: when the root package.json of
\* the target is larger than maxFileSize, no category holds a finding about package.json.
C12_OversizedManifestCausesNoFinding ==
  (op = "audit" /\ oversizedRootManifest) =>
    \A c \in DOMAIN auditReport.categories :
      \A i \in elements(issuesOf(c)) : i.file # "package.json"

\* the manifest parses to an object in which each of the fields is absent or truthy
plain(pkg, fields) == pkg.json = "object" /\ \A p \in fields : pkg.props[p] # "falsy"

\* the findings about the fields of the root manifest that the claim expects, in order
StructureFieldFindings(pkg) ==
  (IF pkg.props["workspaces"] = "absent"
     THEN << [severity |-> "high", message |-> "Missing workspaces configuration",
              file |-> "package.json"] >>
     ELSE << >>)
  \o (IF pkg.props["packageManager"] = "absent"
        THEN << [severity |-> "medium", message |-> "Missing packageManager field",
                 file |-> "package.json"] >>
        ELSE << >>)
  \o (IF pkg.props["engines"] = "absent"
        THEN << [severity |-> "medium", message |-> "Missing engines configuration",
                 file |-> "package.json"] >>
        ELSE << >>)

\* the findings of the Structure category other than the one about the directories
structureFieldFindings ==
  SelectSeq(issuesOf(STRUCTURE), LAMBDA i : i.message # "Missing standard monorepo structure")

\* C13: for a root manifest that is present and parses, whatever the boilerplate and
\* common-config data, the Structure category holds, in this order, a high finding iff
\* workspaces is missing, a medium finding iff packageManager is missing and a medium
\* finding iff engines is missing, and never the critical missing-manifest finding.
C13_StructureFieldFindings ==
  (/\ evaluated(STRUCTURE)
   /\ hasRootManifest(targetData)
   /\ plain(rootManifest(targetData), {"workspaces", "packageManager", "engines"}))
  => structureFieldFindings = StructureFieldFindings(rootManifest(targetData))

\* the boilerplate manifest, if fetched, is valid JSON
boilerplateParses ==
  \A f \in elements(boilerplateData) :
    includes(f.path, "package.json") => f.content.json # "invalid"

\* the answers to the listing requests of a directory of the target
listingsOf(path) ==
  {s.resp : s \in {x \in elements(served[1]) :
                     /\ x.request = [repo |-> "target", path |-> path]
                     /\ "entries" \in DOMAIN x.resp}}

\* the directory exists in the target: it was listed, with entries
dirExists(path) == \E r \in listingsOf(path) : r.status = "ok" /\ r.entries # << >>
dirMissing(path) == \E r \in listingsOf(path) : r.status = "NotFound"

missingMonorepoStructure ==
  \E i \in elements(issuesOf(STRUCTURE)) :
    i.severity = "high" /\ i.message = "Missing standard monorepo structure"

\* C14: for a root manifest that is present and parses, the Structure category holds the
\* high 'Missing standard monorepo structure' finding when the target has neither an
\* apps/ nor a packages/ directory, and never when at least one of the two exists.
C14_MonorepoStructureByDirectories ==
  (/\ evaluated(STRUCTURE)
   /\ hasRootManifest(targetData)
   /\ rootManifest(targetData).json = "object"
   /\ boilerplateParses)
  => /\ (dirExists("apps") \/ dirExists("packages")) => ~missingMonorepoStructure
     /\ (dirMissing("apps") /\ dirMissing("packages")) => missingMonorepoStructure

\* a collected configuration file with the given file name, at the root or under config/
collectedNamed(name) ==
  \E f \in elements(targetData.configFiles) : f.path = name \/ endsWith(f.path, "/" \o name)

\* a collected configuration file whose name starts with the given prefix
collectedPrefixed(prefix) ==
  \E f \in elements(targetData.configFiles) :
    startsWith(f.path, prefix) \/ includes(f.path, "/" \o prefix)

BuildFindings ==
  (IF collectedNamed("turbo.json") THEN << >>
   ELSE << [severity |-> "high", message |-> "Missing turbo.json configuration",
            file |-> "turbo.json"] >>)
  \o (IF collectedNamed("tsconfig.json") THEN << >>
      ELSE << [severity |-> "medium", message |-> "Missing TypeScript configuration",
               file |-> "tsconfig.json"] >>)
  \o (IF collectedPrefixed("babel.config.") THEN << >>
      ELSE << [severity |-> "medium", message |-> "Missing Babel configuration",
               file |-> "babel.config.json"] >>)

\* C15: the Build category holds a high finding iff no turbo.json is among the collected
\* configFiles, a medium finding iff no tsconfig.json and a medium finding iff no
\* babel.config.*, wherever (root or config directory) the file was collected; its score
\* is 100 minus 15, 10 and 10 for the three.
C15_BuildFindingsByCollectedFiles ==
  evaluated(BUILD) =>
    /\ issuesOf(BUILD) = BuildFindings
    /\ scoreOf(BUILD) = 100 - (IF collectedNamed("turbo.json") THEN 0 ELSE 15)
                            - (IF collectedNamed("tsconfig.json") THEN 0 ELSE 10)
                            - (IF collectedPrefixed("babel.config.") THEN 0 ELSE 10)

\* the package is a dev-dependency of the target's root manifest
devDependency(name) ==
  /\ hasRootManifest(targetData)
  /\ rootManifest(targetData).json = "object"
  /\ rootManifest(targetData).props["devDependencies." \o name] # "absent"

\* C16: the Code Quality category holds a high finding iff no linter config is collected,
\* a medium finding iff no formatter config is collected, a medium finding iff husky is
\* not a dev-dependency of the root manifest and a medium finding iff lint-staged is
\* not, the last two also when there is no root manifest.
C16_CodeQualityFindings ==
  evaluated(CODE_QUALITY) =>
    issuesOf(CODE_QUALITY) =
      CodeQualityConfigFindings
      \o (IF devDependency("husky") THEN << >>
          ELSE << [severity |-> "medium", message |-> "Missing Husky for git hooks",
                   file |-> "package.json"] >>)
      \o (IF devDependency("lint-staged") THEN << >>
          ELSE << [severity |-> "medium", message |-> "Missing lint-staged",
                   file |-> "package.json"] >>)

checkOrder == << STRUCTURE, DEPENDENCIES, BUILD, CODE_QUALITY, TESTING, DOCUMENTATION >>
firstChecks(k) == {checkOrder[i] : i \in 1..k}

\* the three datasets of the audit have been fetched: the target dataset was returned
\* and handed over, and the last request of the common-config query was answered
datasetsFetched ==
  /\ th[1].data # << >>
  /\ targetData = th[1].data[1]
  /\ inflight = 0
  /\ \E s \in elements(served[1]) : s.request = [repo |-> "commonConfig", path |-> ""]
  /\ th[1].pc \in CheckSites

\* the checks that have run are the first ones of the fixed order, none before the
\* datasets are there, and the score is calculated when all six have run
checksInOrder ==
  op = "audit" =>
    /\ \E k \in 0..6 : DOMAIN auditReport.categories = firstChecks(k)
    /\ DOMAIN auditReport.categories # {} => datasetsFetched
    /\ auditReport.summary.complianceScore # 0 =>
         DOMAIN auditReport.categories = firstChecks(6) /\ th[1].pc = "done"

\* a step of one auditRepository call that changes the categories is the next check of
\* the order: it leaves the finished categories as they are and adds its own, created
\* as {issues: [], score: 100} before its findings are recorded
checkStep ==
  (/\ op = "audit" /\ op' = "audit" /\ run' = run
   /\ auditReport'.categories # auditReport.categories)
  => \E k \in 1..6 :
       /\ DOMAIN auditReport.categories = firstChecks(k - 1)
       /\ DOMAIN auditReport'.categories = firstChecks(k)
       /\ \A c \in firstChecks(k - 1) : auditReport'.categories[c] = auditReport.categories[c]
       /\ auditReport'.categories[checkOrder[k]].score =
            Max(0, 100 - SumPenalties(auditReport'.categories[checkOrder[k]].issues))
       /\ auditReport.summary.complianceScore = 0
       /\ auditReport'.summary.complianceScore = 0
       /\ datasetsFetched

\* C18: auditRepository runs the six checks in the order Structure, Dependencies, Build,
\* Code Quality, Testing, Documentation, each after the previous one has finished and
\* after the three datasets have been fetched; each check creates its category entry
\* before its findings; the compliance score is calculated after the last check.
C18_ChecksRunInFixedOrder == [](checksInOrder) /\ [][checkStep]_vars

\* the six checks have run, with findings, and the score is not yet calculated
C18_Witness ==
  /\ op = "audit"
  /\ th[1].pc = "score"
  /\ DOMAIN auditReport.categories = firstChecks(6)
  /\ auditReport.summary.totalIssues > 3
  /\ auditReport.summary.complianceScore = 0

ManifestSites == {"pkg:root", "pkg:apps", "pkg:packages", "pkg:item"}
ConfigSites == {"cfg:root", "cfg:rootItem", "cfg:configDir", "cfg:configItem"}

\* a request of the manifest-fetch phase: the root manifest, the two workspace roots
\* and the manifest of each workspace
isManifestRequest(s) ==
  /\ s.request.repo \in TargetRepos
  /\ \/ s.request.path \in {"package.json", "apps", "packages"}
     \/ startsWith(s.request.path, "apps/")
     \/ startsWith(s.request.path, "packages/")

\* the requests of the collection of a target repository, answered so far
collectionRequests(t) == SelectSeq(served[t], LAMBDA s : s.request.repo \in TargetRepos)

\* C19: in getRepositoryDataChunked the batch delay starts when every request of the
\* manifest phase has completed, no request of the config phase is issued before the
\* delay has elapsed, and totalFiles is set after both phases, to the sum of the lengths
\* of packageFiles and configFiles.
C19_DelayBetweenPhases ==
  \A t \in Threads :
    /\ th[t].pc \in ManifestSites =>
         /\ th[t].delays = 0
         /\ \A s \in elements(collectionRequests(t)) : isManifestRequest(s)
    /\ th[t].pc = "delay1" =>
         /\ ~th[t].waiting
         /\ th[t].delays = 0
         /\ Len(collectionRequests(t)) >= 3
         /\ \A s \in elements(collectionRequests(t)) : isManifestRequest(s)
    /\ th[t].pc \in ConfigSites => th[t].delays = 1
    /\ (\E s \in elements(collectionRequests(t)) : ~isManifestRequest(s)) => th[t].delays >= 1
    /\ th[t].pc \in ManifestSites \cup ConfigSites \cup {"delay1", "delay2"} => th[t].data = << >>
    /\ th[t].data # << >> =>
         /\ th[t].delays = 2
         /\ th[t].data[1].totalFiles =
              Len(th[t].data[1].packageFiles) + Len(th[t].data[1].configFiles)
         /\ th[t].data[1].packageFiles \o th[t].data[1].configFiles = fetched(t, th[t].repo)

\* a dataset was returned with manifests from the first phase and configuration files
\* from the second
C19_Witness ==
  /\ outcome = "returned"
  /\ th[1].delays = 2
  /\ Len(th[1].data[1].packageFiles) >= 2
  /\ Len(th[1].data[1].configFiles) >= 2
  /\ th[1].data[1].totalFiles >= 4

\* the whole name matches the pattern, '*' standing for any substring and every other
\* character for itself
RECURSIVE globMatch(_, _)
globMatch(pattern, name) ==
  IF pattern = "" THEN name = ""
  ELSE IF SubSeq(pattern, 1, 1) = "*"
    THEN \E n \in 0..Len(name) : globMatch(Tail(pattern), SubSeq(name, n + 1, Len(name)))
    ELSE /\ name # ""
         /\ SubSeq(pattern, 1, 1) = SubSeq(name, 1, 1)
         /\ globMatch(Tail(pattern), Tail(name))

isConfigName(name) == \E i \in 1..Len(configPatterns) : globMatch(configPatterns[i], name)

pathsOf(items) == [k \in 1..Len(items) |-> items[k].path]

\* the entries of a directory of the target as listed to the thread (none if the
\* listing failed or was not made)
listed(t, path) ==
  LET answers == SelectSeq(collectionRequests(t),
                           LAMBDA s : s.request.path = path /\ "entries" \in DOMAIN s.resp)
  IN  IF answers = << >> THEN << >> ELSE getRepositoryStructure(answers[1].resp)

\* the paths of the files the thread requested in the config phase, in order: at the
\* root, and under config/
rootFetches(t) ==
  pathsOf(SelectSeq([k \in 1..Len(collectionRequests(t)) |-> collectionRequests(t)[k].request],
                    LAMBDA q : /\ ~isManifestRequest([request |-> q])
                               /\ q.path \notin {"", "config"}
                               /\ ~startsWith(q.path, "config/")))
configDirFetches(t) ==
  pathsOf(SelectSeq([k \in 1..Len(collectionRequests(t)) |-> collectionRequests(t)[k].request],
                    LAMBDA q : startsWith(q.path, "config/")))

\* C20: of the root entries, exactly the files whose whole name matches one of the
\* eight patterns ('*' any substring, other characters literal) are fetched, in listing
\* order; root directories and other files never are; every file entry of config/ is
\* fetched; the files fetched within the size limit are the configFiles.
C20_RootConfigFilesByPattern ==
  \A t \in Threads :
    LET expected == pathsOf(SelectSeq(listed(t, ""),
                                      LAMBDA e : e.type = "file" /\ isConfigName(e.name)))
        inConfig == pathsOf(SelectSeq(listed(t, "config"), LAMBDA e : e.type = "file"))
    IN  /\ th[t].pc = "cfg:rootItem" => rootFetches(t) \o pathsOf(th[t].items) = expected
        /\ th[t].pc \in {"cfg:configDir", "cfg:configItem", "delay2", "collected"} =>
             rootFetches(t) = expected
        /\ th[t].pc = "cfg:configItem" =>
             configDirFetches(t) \o pathsOf(th[t].items) = inConfig
        /\ th[t].pc \in {"delay2", "collected"} =>
             /\ configDirFetches(t) = inConfig
             /\ th[t].packageFiles \o th[t].configFiles = fetched(t, th[t].repo)

\* what a category check records on the datasets of the audit, taken alone
checkResult(c) ==
  CASE c = STRUCTURE -> auditPackageStructure(targetData, boilerplateData)
    [] c = DEPENDENCIES -> auditDependencyManagement(targetData)
    [] c = BUILD -> auditBuildConfiguration(targetData)
    [] c = CODE_QUALITY -> auditCodeQualitySetup(targetData)
    [] c = TESTING -> auditTestingSetup(targetData)
    [] c = DOCUMENTATION -> auditDocumentation

\* every category holds the findings of its own check on the datasets, and the score
\* of these findings alone
ownFindingsOnly ==
  op = "audit" =>
    \A c \in DOMAIN auditReport.categories :
      /\ issuesOf(c) = checkResult(c).issues
      /\ scoreOf(c) = Max(0, 100 - SumPenalties(issuesOf(c)))

\* a step of one auditRepository call changes no category entry that exists, and of the
\* summary only raises counters
othersUntouched ==
  (op = "audit" /\ op' = "audit" /\ run' = run) =>
    /\ \A c \in DOMAIN auditReport.categories :
         /\ c \in DOMAIN auditReport'.categories
         /\ auditReport'.categories[c] = auditReport.categories[c]
    /\ auditReport'.summary.totalIssues >= auditReport.summary.totalIssues

\* C21: the category checks are independent: a check adds findings to its own category
\* entry only and changes no other category's issues or score, and a category's
\* findings and score are those of its own check, whatever the other checks found or
\* whichever of them failed.
C21_ChecksAreIndependent == [](ownFindingsOnly) /\ [][othersUntouched]_vars

\* a report was returned after checks failed on a null manifest while others recorded
\* findings
C21_Witness ==
  /\ returned
  /\ hasRootManifest(targetData)
  /\ rootManifest(targetData).json = "null"
  /\ issuesOf(STRUCTURE) = << >>
  /\ Len(issuesOf(BUILD)) = 3
  /\ Len(issuesOf(CODE_QUALITY)) = 2

\* the number of findings of a category, and of the six, with a severity among sevs
findingsIn(c, sevs) ==
  IF c \in DOMAIN auditReport.categories
    THEN Cardinality({k \in 1..Len(issuesOf(c)) : issuesOf(c)[k].severity \in sevs})
    ELSE 0
findingsOf(sevs) ==
  findingsIn(STRUCTURE, sevs) + findingsIn(DEPENDENCIES, sevs) + findingsIn(BUILD, sevs)
  + findingsIn(CODE_QUALITY, sevs) + findingsIn(TESTING, sevs)
  + findingsIn(DOCUMENTATION, sevs)

\* C22: while auditRepository runs and in every report it returns, summary.totalIssues
\* is the number of findings of all categories and the sum of the four severity
\* counters, each of which is the number of findings of its severity.
C22_SummaryCountsFindings ==
  op = "audit" =>
    /\ auditReport.summary.totalIssues = findingsOf(SEVERITY_LEVELS)
    /\ auditReport.summary.totalIssues =
         auditReport.summary.criticalIssues + auditReport.summary.highIssues
         + auditReport.summary.mediumIssues + auditReport.summary.lowIssues
    /\ auditReport.summary.criticalIssues = findingsOf({"critical"})
    /\ auditReport.summary.highIssues = findingsOf({"high"})
    /\ auditReport.summary.mediumIssues = findingsOf({"medium"})
    /\ auditReport.summary.lowIssues = findingsOf({"low"})

\* a second report was returned with findings of each of the four severities
C22_Witness ==
  /\ returned
  /\ run = 2
  /\ auditReport.summary.criticalIssues = 1
  /\ auditReport.summary.highIssues >= 2
  /\ auditReport.summary.mediumIssues >= 2
  /\ auditReport.summary.lowIssues >= 1

\* the lowest score each check can leave: all of its findings at once
lowestScore(c) ==
  CASE c = STRUCTURE -> 50
    [] c = DEPENDENCIES -> 55
    [] c = BUILD -> 65
    [] c = CODE_QUALITY -> 55
    [] c = TESTING -> 70
    [] c = DOCUMENTATION -> 95

checked(report, category, result) ==
  addIssues(newCategory(report, category), category, result.issues)

\* the report auditRepository builds at time now from a target dataset and the
\* boilerplate data: the six checks in order, then the score
evaluation(now, target, boilerplate) ==
  calculateComplianceScore(
    checked(
      checked(
        checked(
          checked(
            checked(
              checked(newAuditReport(now), STRUCTURE,
                      auditPackageStructure(target, boilerplate)),
              DEPENDENCIES, auditDependencyManagement(target)),
            BUILD, auditBuildConfiguration(target)),
          CODE_QUALITY, auditCodeQualitySetup(target)),
        TESTING, auditTestingSetup(target)),
      DOCUMENTATION, auditDocumentation))

\* every remote request of the audit was answered by a failure
allRequestsFailed ==
  /\ served[1] # << >>
  /\ \A s \in elements(served[1]) : s.resp.status # "ok"

\* C24: when every remote request fails, whatever the failure, auditRepository throws
\* nothing and returns the report of an empty repository: 8 findings (1 critical in
\* Structure, 0 in Dependencies, 3 in Build, 2 in Code Quality, 1 in Testing, 1 in
\* Documentation), scores 75, 100, 65, 75, 85, 95 and complianceScore 83.
C24_AllRequestsFailing ==
  (op = "audit" /\ allRequestsFailed) =>
    /\ outcome # "thrown"
    /\ returned =>
         /\ [auditReport EXCEPT !.timestamp = 0] = evaluation(0, noData, << >>)
         /\ auditReport.summary.totalIssues = 8
         /\ auditReport.summary.criticalIssues = 1
         /\ issuesOf(STRUCTURE)[1].severity = "critical"
         /\ << Len(issuesOf(STRUCTURE)), Len(issuesOf(DEPENDENCIES)), Len(issuesOf(BUILD)),
               Len(issuesOf(CODE_QUALITY)), Len(issuesOf(TESTING)),
               Len(issuesOf(DOCUMENTATION)) >> = << 1, 0, 3, 2, 1, 1 >>
         /\ << scoreOf(STRUCTURE), scoreOf(DEPENDENCIES), scoreOf(BUILD),
               scoreOf(CODE_QUALITY), scoreOf(TESTING), scoreOf(DOCUMENTATION) >>
              = << 75, 100, 65, 75, 85, 95 >>
         /\ auditReport.summary.complianceScore = 83

\* a report was returned after not-found and other failures, and no success
C24_Witness ==
  /\ returned
  /\ allRequestsFailed
  /\ \E s \in elements(served[1]) : s.resp.status = "NotFound"
  /\ \E s \in elements(served[1]) : s.resp.status = "Transient"
  /\ Len(served[1]) >= 7

\* the dataset without its root manifest
withoutRootManifest(data) ==
  LET others == SelectSeq(data.packageFiles, LAMBDA f : f.path # "package.json")
  IN  repositoryData(others, data.configFiles)

\* C25: when the root manifest is present and not valid JSON, Structure and Dependencies
\* end with no finding and score 100, no category holds a finding about package.json,
\* and the complianceScore is at least that of the same repository without the root
\* manifest.
C25_MalformedManifestGoesUnreported ==
  (op = "audit" /\ invalidManifest) =>
    /\ evaluated(STRUCTURE) => issuesOf(STRUCTURE) = << >> /\ scoreOf(STRUCTURE) = 100
    /\ evaluated(DEPENDENCIES) =>
         issuesOf(DEPENDENCIES) = << >> /\ scoreOf(DEPENDENCIES) = 100
    /\ \A c \in DOMAIN auditReport.categories :
         \A i \in elements(issuesOf(c)) : i.file # "package.json"
    /\ returned =>
         auditReport.summary.complianceScore >=
           evaluation(0, withoutRootManifest(targetData), boilerplateData)
             .summary.complianceScore

\* a report was returned for a malformed root manifest, with a higher score than the
\* repository would get without the manifest
C25_Witness ==
  /\ returned
  /\ invalidManifest
  /\ targetData.configFiles # << >>
  /\ auditReport.summary.complianceScore >
       evaluation(0, withoutRootManifest(targetData), boilerplateData).summary.complianceScore

\* the file entries the target listed for a directory (in every listing of it)
fileNamesListed(path) ==
  {e.name : e \in UNION {{x \in elements(r.entries) : x.type = "file"} :
                           r \in listingsOf(path)}}

isEslintrcName(name) == name = ".eslintrc" \/ startsWith(name, ".eslintrc.")

\* the only linter configuration of the target is a root-level .eslintrc or .eslintrc.*
\* file: the root was listed, always with such a file and never with an eslint.config
\* file, and config/ listed no linter configuration
onlyRootEslintrc ==
  /\ listingsOf("") # {}
  /\ \A r \in listingsOf("") :
       /\ r.status = "ok"
       /\ \E e \in elements(r.entries) : e.type = "file" /\ isEslintrcName(e.name)
  /\ \A n \in fileNamesListed("") : ~includes(n, "eslint.config")
  /\ \A n \in fileNamesListed("config") : ~includes(n, "eslint")

missingESLintConfiguration ==
  \E i \in elements(issuesOf(CODE_QUALITY)) :
    i.severity = "high" /\ i.message = "Missing ESLint configuration"

\* C26: a target whose only linter configuration is a root-level file named .eslintrc
\* or .eslintrc.* always receives the high 'Missing ESLint configuration' finding.
C26_RootEslintrcNeverCollected ==
  (evaluated(CODE_QUALITY) /\ onlyRootEslintrc) => missingESLintConfiguration

\* the Code Quality check ran on a target whose root .eslintrc.jest.config.js was
\* collected, and recorded no missing ESLint configuration
C26_EslintrcCollectedByPattern ==
  /\ evaluated(CODE_QUALITY)
  /\ onlyRootEslintrc
  /\ \E f \in elements(targetData.configFiles) : f.path = ".eslintrc.jest.config.js"
  /\ ~missingESLintConfiguration

\* the same statement for root files named .eslintrc.* that match none of the
\* collector's patterns anywhere in the name
C26_PlainEslintrcNeverCollected ==
  (/\ evaluated(CODE_QUALITY)
   /\ onlyRootEslintrc
   /\ \A n \in fileNamesListed("") : isEslintrcName(n) => ~matchesPattern(n, configPatterns))
  => missingESLintConfiguration

C26_PlainWitness ==
  /\ evaluated(CODE_QUALITY)
  /\ onlyRootEslintrc
  /\ \A n \in fileNamesListed("") : isEslintrcName(n) => ~matchesPattern(n, configPatterns)

\* the report of the same target dataset audited without any reference data
withoutReferenceData == evaluation(0, targetData, << >>)

\* the report of the same target dataset and boilerplate data, whatever the
\* common-config data
withoutCommonConfig == evaluation(0, targetData, boilerplateData)

=============================================================================
